---- MODULE Spec2Model ----
(***************************************************************************)
(* Download jobs of the ISO manager web server, the download engine that   *)
(* feeds them, and the archive catalog (isos.json) the server commits to.  *)
(*                                                                         *)
(*   server  : src/iso-manager-web/index.html  (server.js part, 413-1423)  *)
(*   engine  : src/iso-manager.js              (class IsoManager)          *)
(*   iso-downloader's own engine : src/iso-manager-web/index.html          *)
(*                                 (downloadAndVerifyFile, 1555-1659)      *)
(***************************************************************************)
EXTENDS Integers, Sequences, FiniteSets, TLC

\* ------------------------------------------------------------------ bounds
MaxJobs == 2          \* download ids handed out by the server
MaxBody == 2          \* chunks in a response body
MaxRequests == 9      \* requests one resolution, fetch or download may issue
MaxLines == 2         \* lines in a checksum file
MaxParts == 3         \* parts of a version string
MaxRecords == 2       \* records of a catalog given to update detection

\* ------------------------------------------------------------ value spaces
\* A file name is <stem>-<version>.iso; the version is the list of its dotted
\* numeric components.
FileName(stem, ver) == [stem |-> stem, ver |-> ver]

FileNames ==
  { FileName("ubuntu", <<22, 4>>),
    FileName("ubuntu", <<24, 4>>),
    FileName("debian", <<12>>) }

\* A URL is a host and the last segment of its path.
Urls == { [host |-> "mirror", file |-> f] : f \in FileNames }

\* The bytes of a file are a sequence of chunks; chunk k of the body served
\* for file f is [f |-> f, k |-> k].  Hole stands for a run of zero bytes.
Chunk(f, k) == [f |-> f, k |-> k]
Hole(f) == [f |-> f, k |-> 0]

\* The mirror's resource behind each URL: how many chunks its body has.  One
\* resource is as long as the bound allows, the others are empty.
BodyLen(u) ==
  IF u.file = FileName("ubuntu", <<22, 4>>) THEN MaxBody ELSE 0

\* The first n chunks of the body served for URL u
Body(u, n) == [k \in 1..n |-> Chunk(u.file, k)]

\* Hash values are hex strings: hex = <<>> is the empty string '', and
\* hex = <<b>> is the digest of the byte sequence b.
EmptyHash == [hex |-> <<>>, upper |-> FALSE]

\* crypto.createHash(alg).update(bytes).digest('hex'): lowercase hex, one
\* value per distinct byte string, never the empty string.
Digest(bytes) == [hex |-> <<bytes>>, upper |-> FALSE]

\* String.prototype.toLowerCase on a hex hash
toLowerCase(h) == [h EXCEPT !.upper = FALSE]

\* ----------------------------------------------------------------- helpers
\* parseUrl(url).filename / finalUrl.split('/').pop()
parseUrl(u) == u.file

\* isoName in the completion handler: the URL's file name without extension
isoNameOf(u) == parseUrl(u)

\* normalizeIsoName: lowercases, drops the extension, removes every dotted
\* version (\d+(\.\d+)+, at least two components), then all non-alphanumerics.
\* A single number is not a dotted version and stays in the name.
normalizeIsoName(name) ==
  [stem |-> name.stem,
   ver  |-> IF Len(name.ver) >= 2 THEN <<>> ELSE name.ver]

\* extractVersionFromFilename: first match of [\d]+(\.[\d]+)+ or null.
\* The result is <<v>> for a match and <<>> for null.
extractVersionFromFilename(f) ==
  IF Len(f.ver) >= 2 THEN <<f.ver>> ELSE <<>>

\* ------------------------------------------------------------------- state
VARIABLES
  downloads,        \* server: downloads[id], the job registry
  nextDownloadId,   \* server: next id to hand out
  eng,              \* per job: the engine's transfer in flight
  fs,               \* archive directory: file name -> content
  isosJson,         \* archive directory: the catalog document isos.json
  dl,               \* iso-downloader: its downloadAndVerifyFile call in flight
  cat,              \* catalog and delete operations of the server and the CLI
  rd,               \* a redirect resolution, fetch or download following redirects
  hf,               \* a findHashFile or extractHashFromFile call
  upd,              \* update detection: a markArchivedIsos or compareVersions call
  poll,             \* the web client's polling of one job
  lc                \* the server's listing cache and the request it answers

vars == <<downloads, nextDownloadId, eng, fs, isosJson, dl, cat, rd, hf, upd, poll, lc>>

Terminal(s) == s \in {"completed", "error", "cancelled", "paused"}

\* --------------------------------------------------------- archive catalog
\* The content of isos.json.  form says what the bytes are:
\*   "doc"          a document { isos: [...] }, the array in isos
\*   "garbage"      not JSON: an empty or cut-off file, JSON.parse throws
\*   "noIsos"       JSON without an isos member, such as {}
\*   "isosNotArray" JSON whose isos is not an array, such as { isos: "x" }
NoCatalog == [exists |-> FALSE, form |-> "doc", isos |-> <<>>]
Unreadable(form) == [exists |-> TRUE, form |-> form, isos |-> <<>>]
CorruptForms == {"garbage", "noIsos", "isosNotArray"}

\* readIsosJson: a missing file reads as { isos: [] }
\* and so does one JSON.parse rejects.  This is data.isos when it is an array.
readIsosJson ==
  IF isosJson.exists /\ isosJson.form = "doc" THEN isosJson.isos ELSE <<>>

\* writeIsosJson(data): fs.writeFileSync of the whole document
writeIsosJson(isos) == [exists |-> TRUE, form |-> "doc", isos |-> isos]

\* Array.prototype.findIndex: the first index whose item has the property,
\* 0 for -1.  Here: the first record with the given filename.
findIndexByFilename(isos, filename) ==
  IF \E i \in 1..Len(isos) : isos[i].filename = filename
  THEN CHOOSE i \in 1..Len(isos) :
         /\ isos[i].filename = filename
         /\ \A k \in 1..(i-1) : isos[k].filename # filename
  ELSE 0

\* The first record whose normalized name is the given one, 0 for -1
findIndexByName(isos, normalizedName) ==
  IF \E i \in 1..Len(isos) : normalizeIsoName(isos[i].name) = normalizedName
  THEN CHOOSE i \in 1..Len(isos) :
         /\ normalizeIsoName(isos[i].name) = normalizedName
         /\ \A k \in 1..(i-1) : normalizeIsoName(isos[k].name) # normalizedName
  ELSE 0

\* addIsoToJson(iso, filename, hash, size): the document it writes.  hash is
\* <<h>> or <<>> for undefined, and the record stores hash || ''.
addIsoToJson(iso, filename, hash, size) ==
  LET isos == readIsosJson
      normalizedName == normalizeIsoName(iso.name)
      existingIndex ==
        IF findIndexByFilename(isos, filename) # 0
        THEN findIndexByFilename(isos, filename)
        ELSE findIndexByName(isos, normalizedName)
      isoData == [name     |-> iso.name,
                  filename |-> filename,
                  version  |-> IF iso.version # <<>> THEN iso.version
                               ELSE extractVersionFromFilename(filename),
                  hash     |-> IF hash # <<>> THEN hash[1] ELSE EmptyHash,
                  size     |-> size]
  IN writeIsosJson(IF existingIndex # 0
                   THEN [isos EXCEPT ![existingIndex] = isoData]
                   ELSE Append(isos, isoData))

\* --------------------------------------------------------------- file system
exists(f) == f \in DOMAIN fs

\* fs.createWriteStream(path) opening with flag 'w': creates or truncates
Truncate(files, f) == [g \in DOMAIN files \cup {f} |-> IF g = f THEN <<>> ELSE files[g]]

\* A write stream writes its k-th chunk at its own offset
WriteAt(files, f, pos, chunk) ==
  LET old == IF f \in DOMAIN files THEN files[f] ELSE <<>>
      n   == IF Len(old) > pos THEN Len(old) ELSE pos
      new == [i \in 1..n |-> IF i = pos THEN chunk
                             ELSE IF i <= Len(old) THEN old[i] ELSE Hole(f)]
  IN [g \in DOMAIN files \cup {f} |-> IF g = f THEN new ELSE files[g]]

\* ------------------------------------------------- server: job bookkeeping
\* onProgress callback of app.post('/api/download')
onProgress(job, progressData) ==
  [job EXCEPT !.progress = progressData.percentage, !.status = "downloading"]

\* downloadPromise.then(result => ...): the job part
OnResolved(job, result) ==
  [job EXCEPT !.status = "completed", !.progress = 100, !.result = <<result>>]

\* downloadPromise.catch(error => ...)
OnRejected(job, message) ==
  [job EXCEPT !.status = "error", !.error = <<message>>]

\* downloadPromise.then(result => ...): the catalog part.  statSync throws
\* when the file is gone, and the handler's try/catch swallows it.
CommitToCatalog(u, result) ==
  LET filename == result.filePath
      isoName  == isoNameOf(u)
      version  == extractVersionFromFilename(filename)
  IN IF exists(filename)
     THEN addIsoToJson([name |-> isoName, version |-> version], filename,
                       result.hash, Len(fs[filename]))
     ELSE isosJson

\* app.get('/api/download/:id'): the snapshot a poll returns, <<>> for 404
status(id) == IF id \in DOMAIN downloads THEN <<downloads[id]>> ELSE <<>>

\* ------------------------------------------------------------ Init / server
\* The engine's closure for one job.  Once the transfer has ended or stalled
\* nothing reads the counters again; Dead is that closure.
NewEngine == [pc |-> "redirects", sent |-> 0, total |-> 0,
              fileOk |-> FALSE, settled |-> "pending"]
Dead(e, pc) == [pc |-> pc, sent |-> 0, total |-> 0,
                fileOk |-> FALSE, settled |-> e.settled]

\* A filename argument as the caller wrote it: a directory part and a last
\* segment.  "." is a plain file name.
Plain(f) == [dir |-> ".", base |-> f]
TraversalNames ==
  { [dir |-> d, base |-> FileName("ubuntu", <<24, 4>>)] :
      d \in {"../../etc", "../ISO-Archive-old"} }

\* The downloads the two processes make into the archive: two versions of
\* one distribution
CatUrls == { u \in Urls : u.file.stem = "ubuntu" }
DeleteNames == { Plain(parseUrl(u)) : u \in CatUrls } \cup TraversalNames

\* path.basename(filename)
basename(n) == n.base

\* path.join(archivePath, filename): the directory the normalised path is in
joinDir(n) ==
  CASE n.dir = "." -> "ISO-Archive"
    [] n.dir = "../ISO-Archive-old" -> "ISO-Archive-old"
    [] OTHER -> "etc"

\* filePath.startsWith(archivePath), a comparison of strings: a sibling
\* directory whose name begins with the archive's name passes it.
startsWithArchivePath(dir) == dir \in {"ISO-Archive", "ISO-Archive-old"}

\* fullPathToDelete.startsWith(resolvedArchivePath + path.sep)
startsWithArchivePathSep(dir) == dir = "ISO-Archive"

\* Files outside the archive directory that a traversal name points at
OutsideFiles ==
  { [dir |-> joinDir(n), base |-> basename(n)] : n \in TraversalNames }

\* One process's catalog operation
OpIdle == [pc |-> "idle", op |-> "none", name |-> <<>>, url |-> <<>>,
           doc |-> NoCatalog, again |-> FALSE]
NoResult == [who |-> "none", op |-> "none", name |-> <<>>, response |-> "",
             wrote |-> FALSE, again |-> FALSE]
\* Both processes idle, the outside files in place, isos.json untouched
CatIdle == [srv |-> OpIdle, cli |-> OpIdle, outside |-> OutsideFiles,
            foreign |-> FALSE, last |-> NoResult]

\* maxRedirects = 5, the default of followRedirects and of both fetchData
maxRedirects == 5

\* What the mirror does with the URLs of one download: a chain of hops
\* redirects that ends at the resource, or a cycle of hops URLs that redirect
\* round.  URL k of the topology is the one reached after k redirects.
Topologies ==
  { [hops |-> n, loop |-> FALSE] : n \in 0..(maxRedirects + 1) }
    \cup { [hops |-> n, loop |-> TRUE] : n \in 1..2 }
IsRedirect(topo, at) == topo.loop \/ at < topo.hops
Location(topo, at) == IF topo.loop THEN (at + 1) % topo.hops ELSE at + 1

\* No redirect resolution, fetch or download started
RdIdle == [op |-> "idle", phase |-> "done", topo |-> [hops |-> 0, loop |-> FALSE],
           at |-> 0, count |-> 0, requests |-> 0, outcome |-> "none"]

\* iso-downloader before its first call
DlIdle == [pc |-> "idle", url |-> <<>>, expectedHash |-> <<>>, downloadedBytes |-> 0,
           hashed |-> <<>>, fileOk |-> FALSE, outcome |-> <<>>]

\* No findHashFile or extractHashFromFile call made
HfIdle == [impl |-> "none", url |-> <<>>, algo |-> "", idx |-> 0, fetched |-> <<>>,
           last |-> <<>>, outcome |-> "idle", hash |-> <<>>]

\* No markArchivedIsos or compareVersions call made
UpdIdle == [op |-> "idle", name |-> FileName("ubuntu", <<>>), details |-> <<>>,
            files |-> <<>>, isos |-> <<>>,
            marks |-> [inArchive |-> FALSE, updateAvailable |-> FALSE,
                       filename |-> FileName("ubuntu", <<>>), matchedIsoData |-> 0],
            v1 |-> <<>>, v2 |-> <<>>, result |-> 0]

\* The web client has no download to poll
PollIdle == [op |-> "idle", loop |-> "none", seen |-> "", late |-> FALSE]

\* isoListCache = null, isoListCacheTime = null, no request made
LcIdle == [isoListCache |-> <<>>, fresh |-> FALSE, fetching |-> {},
           last |-> [url |-> <<>>, from |-> <<>>]]

Init ==
  /\ downloads = << >>
  /\ nextDownloadId = 1
  /\ eng = << >>
  /\ fs = << >>
  /\ isosJson = NoCatalog
  /\ dl = DlIdle
  /\ cat = CatIdle
  /\ rd = RdIdle
  /\ hf = HfIdle
  /\ upd = UpdIdle
  /\ poll = PollIdle
  /\ lc = LcIdle

\* app.post('/api/download'): register the job, answer with its id, start the
\* engine in the background.  Of the request body only url, outputPath, verify
\* and hashAlgorithm are read: an expectedHash in it changes nothing.
Submit(u) ==
  /\ nextDownloadId <= MaxJobs
  /\ downloads' = [i \in DOMAIN downloads \cup {nextDownloadId} |->
        IF i = nextDownloadId
        THEN [url |-> u, progress |-> 0, status |-> "initializing",
              error |-> <<>>, result |-> <<>>]
        ELSE downloads[i]]
  /\ eng' = [i \in DOMAIN eng \cup {nextDownloadId} |->
        IF i = nextDownloadId THEN NewEngine ELSE eng[i]]
  /\ nextDownloadId' = nextDownloadId + 1
  /\ UNCHANGED <<fs, isosJson, dl, cat, rd, hf, upd, poll, lc>>

\* ------------------------------------- engine: IsoManager.downloadAndVerifyFile
\* reject(err) reaching the server's catch handler; a settled promise ignores it
Reject(j, e, message) ==
  IF e.settled = "pending"
  THEN /\ eng' = [eng EXCEPT ![j] = [e EXCEPT !.settled = "rejected"]]
       /\ downloads' = [downloads EXCEPT ![j] = OnRejected(downloads[j], message)]
  ELSE /\ eng' = [eng EXCEPT ![j] = e]
       /\ UNCHANGED downloads

\* After followRedirects and mkdir: fs.createWriteStream(downloadPath), then
\* httpModule.get(finalUrl).  The stream's open can fail (EACCES, EISDIR, ...),
\* which emits 'error' on the stream; the request is sent either way.
E1_Open(j, openOk) ==
  /\ j \in DOMAIN eng
  /\ eng[j].pc = "redirects"
  /\ LET e == [eng[j] EXCEPT !.pc = "requesting", !.fileOk = openOk]
     IN IF openOk
        THEN /\ fs' = Truncate(fs, parseUrl(downloads[j].url))
             /\ eng' = [eng EXCEPT ![j] = e]
             /\ UNCHANGED downloads
        ELSE /\ Reject(j, e, "File write error")
             /\ UNCHANGED fs
  /\ UNCHANGED <<nextDownloadId, isosJson, dl, cat, rd, hf, upd, poll, lc>>

\* The response callback of httpModule.get: status 200 starts the piping,
\* any other status destroys the stream and rejects.
E1_Response(j, code, lengthKnown) ==
  /\ j \in DOMAIN eng
  /\ eng[j].pc = "requesting"
  /\ IF code = 200
     THEN /\ eng' = [eng EXCEPT ![j] = [@ EXCEPT !.pc = "streaming",
                       !.total = IF lengthKnown THEN BodyLen(downloads[j].url) ELSE 0]]
          /\ UNCHANGED downloads
     ELSE Reject(j, Dead(eng[j], "ended"), "HTTP error")
  /\ UNCHANGED <<nextDownloadId, fs, isosJson, dl, cat, rd, hf, upd, poll, lc>>

\* request.on('error'): fileStream.destroy(); reject(err).  A socket error
\* (connection refused, reset) is emitted on the request, also after the
\* response has begun.
E1_RequestError(j) ==
  /\ j \in DOMAIN eng
  /\ \/ eng[j].pc = "requesting"
     \/ eng[j].pc = "streaming" /\ eng[j].sent < BodyLen(downloads[j].url)
  /\ Reject(j, Dead(eng[j], "ended"), "request error")
  /\ UNCHANGED <<nextDownloadId, fs, isosJson, dl, cat, rd, hf, upd, poll, lc>>

\* A percentage of what remains instead of what was transferred
percentage_Remaining(bytesTransferred, totalBytes) ==
  IF totalBytes > 0 THEN ((totalBytes - bytesTransferred) * 100) \div totalBytes ELSE 0

\* percentage: totalBytes > 0 ? (bytesTransferred / totalBytes) * 100 : 0
percentage(bytesTransferred, totalBytes) ==
  IF totalBytes > 0 THEN (bytesTransferred * 100) \div totalBytes ELSE 0

\* response.on('data'): count the chunk and report progress; the pipe writes
\* the chunk to the file while the stream is alive.
E1_Data(j) ==
  /\ j \in DOMAIN eng
  /\ eng[j].pc = "streaming"
  /\ eng[j].sent < BodyLen(downloads[j].url)
  /\ LET e == eng[j]
         bytesTransferred == e.sent + 1
         f == parseUrl(downloads[j].url)
     IN /\ eng' = [eng EXCEPT ![j] = [e EXCEPT !.sent = bytesTransferred]]
        /\ downloads' = [downloads EXCEPT ![j] =
              onProgress(@, [percentage |-> percentage(bytesTransferred, e.total),
                             bytesTransferred |-> bytesTransferred,
                             totalBytes |-> e.total])]
        /\ fs' = IF e.fileOk
                 THEN WriteAt(fs, f, bytesTransferred, Chunk(f, bytesTransferred))
                 ELSE fs
  /\ UNCHANGED <<nextDownloadId, isosJson, dl, cat, rd, hf, upd, poll, lc>>

\* fileStream.on('error') while the transfer runs (disk full, I/O error)
E1_FileError(j) ==
  /\ j \in DOMAIN eng
  /\ eng[j].pc \in {"requesting", "streaming"}
  /\ eng[j].fileOk
  /\ Reject(j, [eng[j] EXCEPT !.fileOk = FALSE], "File write error")
  /\ UNCHANGED <<nextDownloadId, fs, isosJson, dl, cat, rd, hf, upd, poll, lc>>

\* The result the module's downloadIso wrapper hands to the server: the
\* engine's { success, filePath, filename, size } with size from statSync.
\* The engine computes no hash: result.hash is undefined, <<>> here.
E1_Result(u) ==
  LET f == parseUrl(u)
  IN [success |-> TRUE, filePath |-> f, filename |-> f,
      size |-> IF exists(f) THEN Len(fs[f]) ELSE 0, hash |-> <<>>]

\* End of the body: the pipe ends the file stream, 'finish' resolves, and the
\* server's then handler completes the job and commits the archive record.
E1_End(j) ==
  /\ j \in DOMAIN eng
  /\ eng[j].pc = "streaming"
  /\ eng[j].sent = BodyLen(downloads[j].url)
  /\ IF eng[j].fileOk /\ eng[j].settled = "pending"
     THEN LET result == E1_Result(downloads[j].url)
          IN /\ eng' = [eng EXCEPT ![j] = [Dead(@, "ended") EXCEPT !.settled = "resolved"]]
             /\ downloads' = [downloads EXCEPT ![j] = OnResolved(@, result)]
             /\ isosJson' = CommitToCatalog(downloads[j].url, result)
     ELSE /\ eng' = [eng EXCEPT ![j] = Dead(@, "ended")]
          /\ UNCHANGED <<downloads, isosJson>>
  /\ UNCHANGED <<nextDownloadId, fs, dl, cat, rd, hf, upd, poll, lc>>

\* The peer stops sending, or closes the connection without an error after
\* the response has begun (the response is 'aborted'): no 'data', no 'end' and
\* no request 'error' is delivered any more, and the engine sets no timeout.
E1_Stall(j) ==
  /\ j \in DOMAIN eng
  /\ \/ eng[j].pc = "requesting"
     \/ eng[j].pc = "streaming" /\ eng[j].sent < BodyLen(downloads[j].url)
  /\ eng' = [eng EXCEPT ![j] = Dead(@, "stalled")]
  /\ UNCHANGED <<downloads, nextDownloadId, fs, isosJson, dl, cat, rd, hf, upd, poll, lc>>

HttpCodes == {200, 404}

Next ==
  \/ \E u \in Urls : Submit(u)
  \/ \E j \in 1..MaxJobs, ok \in BOOLEAN : E1_Open(j, ok)
  \/ \E j \in 1..MaxJobs, code \in HttpCodes, known \in BOOLEAN :
        E1_Response(j, code, known)
  \/ \E j \in 1..MaxJobs : E1_RequestError(j)
  \/ \E j \in 1..MaxJobs : E1_Data(j)
  \/ \E j \in 1..MaxJobs : E1_FileError(j)
  \/ \E j \in 1..MaxJobs : E1_End(j)
  \/ \E j \in 1..MaxJobs : E1_Stall(j)

\* The web server: download jobs, their engine and the catalog they commit to
Spec == Init /\ [][Next]_vars

\* -------------------------------- iso-downloader: downloadAndVerifyFile
\* The module's own engine: downloadAndVerifyFile(url, outputPath,
\* expectedHash, hashAlgorithm), with outputPath the archive path of the URL's
\* file name.  The promise's outcome is kept in dl.outcome.
Resolved(result) == [kind |-> "resolved", result |-> <<result>>, message |-> ""]
Rejected(message) == [kind |-> "rejected", result |-> <<>>, message |-> message]

\* The hashes a caller may pass for URL u: none, the body's digest in lower
\* or upper case, and the digest of something else.
ExpectedHashes(u) ==
  LET right == Digest(Body(u, BodyLen(u)))
      wrong == Digest(<<Hole(u.file)>>)
  IN {<<>>, <<right>>, <<[right EXCEPT !.upper = TRUE]>>, <<wrong>>}

\* fs.unlink / fs.unlinkSync of the output file
Unlink(files, f) == [g \in DOMAIN files \ {f} |-> files[g]]

\* What file.on('finish') resolves with: the comparison of the computed hash
\* with the expected one, both lowercased, when an expected hash was given.
E3_Verify(outputPath, expectedHash, hashed, downloadedBytes) ==
  IF expectedHash # <<>>
  THEN LET calculatedHash == Digest(hashed)
       IN IF toLowerCase(calculatedHash) = toLowerCase(expectedHash[1])
          THEN Resolved([success |-> TRUE, path |-> outputPath, size |-> downloadedBytes,
                         hash |-> <<calculatedHash>>, error |-> "",
                         expected |-> <<>>, actual |-> <<>>])
          ELSE Resolved([success |-> FALSE, path |-> outputPath, size |-> 0,
                         hash |-> <<>>, error |-> "Hash verification failed",
                         expected |-> expectedHash, actual |-> <<calculatedHash>>])
  ELSE Resolved([success |-> TRUE, path |-> outputPath, size |-> downloadedBytes,
                 hash |-> <<>>, error |-> "", expected |-> <<>>, actual |-> <<>>])

DlOver(d, outcome) ==
  [d EXCEPT !.pc = "done", !.fileOk = FALSE, !.outcome = <<outcome>>]

\* The call: fs.createWriteStream(outputPath), createHash when an expected
\* hash was given, httpModule.get(url).  A failing open emits 'error' on the
\* file: the partial file is unlinked and the promise rejects.
E3_Start(u, expectedHash, openOk) ==
  /\ dl.pc \in {"idle", "done"}
  /\ LET d == [pc |-> "requesting", url |-> <<u>>, expectedHash |-> expectedHash,
               downloadedBytes |-> 0, hashed |-> <<>>, fileOk |-> openOk,
               outcome |-> <<>>]
     IN IF openOk
        THEN /\ fs' = Truncate(fs, parseUrl(u))
             /\ dl' = d
        ELSE /\ fs' = Unlink(fs, parseUrl(u))
             /\ dl' = DlOver(d, Rejected("file error"))
  /\ UNCHANGED <<downloads, nextDownloadId, eng, isosJson, cat, rd, hf, upd, poll, lc>>

\* The response callback: any status but 200 closes and unlinks the file and
\* rejects; 200 pipes the body into the file.
E3_Response(code) ==
  /\ dl.pc = "requesting"
  /\ IF code = 200
     THEN /\ dl' = [dl EXCEPT !.pc = "streaming"]
          /\ UNCHANGED fs
     ELSE /\ fs' = Unlink(fs, parseUrl(dl.url[1]))
          /\ dl' = DlOver(dl, Rejected("HTTP Error"))
  /\ UNCHANGED <<downloads, nextDownloadId, eng, isosJson, cat, rd, hf, upd, poll, lc>>

\* response.on('data'): count, feed the hash, and (the pipe) write the chunk
E3_Data ==
  /\ dl.pc = "streaming"
  /\ dl.downloadedBytes < BodyLen(dl.url[1])
  /\ LET f == parseUrl(dl.url[1])
         k == dl.downloadedBytes + 1
     IN /\ dl' = [dl EXCEPT !.downloadedBytes = k,
                            !.hashed = IF dl.expectedHash # <<>>
                                       THEN Append(@, Chunk(f, k)) ELSE @]
        /\ fs' = WriteAt(fs, f, k, Chunk(f, k))
  /\ UNCHANGED <<downloads, nextDownloadId, eng, isosJson, cat, rd, hf, upd, poll, lc>>

\* request.on('error') and file.on('error'): unlink the partial file, reject
E3_Error(message) ==
  /\ \/ dl.pc = "requesting"
     \/ dl.pc = "streaming" /\ dl.downloadedBytes < BodyLen(dl.url[1])
  /\ fs' = Unlink(fs, parseUrl(dl.url[1]))
  /\ dl' = DlOver(dl, Rejected(message))
  /\ UNCHANGED <<downloads, nextDownloadId, eng, isosJson, cat, rd, hf, upd, poll, lc>>

\* file.on('finish'): the body is on disk; verify and resolve
E3_Finish ==
  /\ dl.pc = "streaming"
  /\ dl.downloadedBytes = BodyLen(dl.url[1])
  /\ dl' = [dl EXCEPT !.pc = "done",
                      !.outcome = <<E3_Verify(parseUrl(dl.url[1]), dl.expectedHash,
                                              dl.hashed, dl.downloadedBytes)>>]
  /\ UNCHANGED <<fs, downloads, nextDownloadId, eng, isosJson, cat, rd, hf, upd, poll, lc>>

DlNext ==
  \/ \E u \in Urls, ok \in BOOLEAN : \E h \in ExpectedHashes(u) : E3_Start(u, h, ok)
  \/ \E code \in HttpCodes : E3_Response(code)
  \/ E3_Data
  \/ \E m \in {"request error", "file error"} : E3_Error(m)
  \/ E3_Finish

\* iso-downloader's downloadAndVerifyFile, called any number of times
DlSpec == Init /\ [][DlNext]_vars

\* The server's promise handlers applied to an engine outcome
TrackOutcome(job, outcome) ==
  IF outcome.kind = "resolved" THEN OnResolved(job, outcome.result[1])
  ELSE OnRejected(job, outcome.message)

\* ------------------------------------------ catalog writers and deletes
\* The server and the CLI are two processes working on one archive
\* directory.  Each has at most one catalog operation in flight; an operation
\* reads isos.json, computes the new document, and writes it with
\* fs.writeFileSync, which opens the file truncating it and then writes.

\* item.filename === filename, for a filename argument
SameName(filename, n) == n.dir = "." /\ n.base = filename

\* A mutated filter that drops nothing
withoutFilename_KeepAll(isos, n) == isos

\* isos.filter(i => i.filename !== filename)
withoutFilename(isos, n) ==
  LET Keep(i) == ~SameName(i.filename, n)
  IN SelectSeq(isos, Keep)

\* Whether data.isos of readIsosJson()'s result is an array: a missing file
\* and a file JSON.parse rejects give { isos: [] }, any other content is
\* returned as parsed.
dataIsosIsArray == ~isosJson.exists \/ isosJson.form \in {"doc", "garbage"}

\* removeIsoFromJson(filename): the document it writes
removeIsoFromJson(n) == writeIsosJson(withoutFilename(readIsosJson, n))

\* The meta the CLI's downloadIso builds: no hash (the engine returns none),
\* version "" when the caller gave none.
CliMeta(u) ==
  LET filename == parseUrl(u)
  IN [name |-> filename, filename |-> filename, version |-> <<>>,
      hash |-> EmptyHash,
      size |-> IF exists(filename) THEN Len(fs[filename]) ELSE 0]

\* updateIsosJson(meta, archiveDir, remove), given that isos.json exists: the
\* document it writes.  isos is parsed.isos || [], and [] when parsing throws.
updateIsosJson(meta, remove) ==
  LET isos == withoutFilename(readIsosJson, Plain(meta.filename))
  IN writeIsosJson(IF remove THEN isos ELSE Append(isos, meta))

Result(who, op, n, response, wrote, again) ==
  [who |-> who, op |-> op, name |-> <<n>>, response |-> response,
   wrote |-> wrote, again |-> again]

\* Whether the call before this one was a finished add of the same filename
AddedBefore(f) ==
  /\ cat.last.op = "add" /\ cat.last.name = <<Plain(f)>>
  /\ cat.last.response = "ok"

\* A transfer leaves u's whole body at the archive path of u's file
Cat_Download(u) ==
  /\ fs' = [g \in DOMAIN fs \cup {parseUrl(u)} |->
              IF g = parseUrl(u) THEN Body(u, BodyLen(u)) ELSE fs[g]]
  /\ cat' = [cat EXCEPT !.last = NoResult]
  /\ UNCHANGED <<downloads, nextDownloadId, eng, isosJson, dl, rd, hf, upd, poll, lc>>

\* Server: the completion handler's statSync and addIsoToJson, up to the
\* write.  A TypeError of addIsoToJson is caught by the handler.
S_Add(u) ==
  LET f == parseUrl(u)
  IN /\ cat.srv.pc = "idle"
     /\ exists(f)
     /\ IF dataIsosIsArray
        THEN cat' = [cat EXCEPT
               !.srv = [pc |-> "write", op |-> "add", name |-> <<Plain(f)>>,
                        url |-> <<u>>, doc |-> CommitToCatalog(u, E1_Result(u)),
                        again |-> AddedBefore(f)],
               !.last = NoResult]
        ELSE cat' = [cat EXCEPT
               !.last = Result("srv", "add", Plain(f), "TypeError", FALSE,
                               AddedBefore(f))]
     /\ UNCHANGED <<downloads, nextDownloadId, eng, fs, isosJson, dl, rd, hf, upd, poll, lc>>

\* Server: getIsoDataFromJson(filename)
S_Find(f) ==
  /\ cat.srv.pc = "idle"
  /\ cat' = [cat EXCEPT
       !.last = Result("srv", "find", Plain(f),
                       IF dataIsosIsArray THEN "ok" ELSE "TypeError", FALSE, FALSE)]
  /\ UNCHANGED <<downloads, nextDownloadId, eng, fs, isosJson, dl, rd, hf, upd, poll, lc>>

\* Server: app.delete('/api/iso-archive/:filename').  The path is built from
\* the basename of the parameter; the record is removed by the parameter.
S_Delete(n) ==
  LET target == basename(n)
  IN /\ cat.srv.pc = "idle"
     /\ IF ~startsWithArchivePathSep("ISO-Archive")
        THEN /\ cat' = [cat EXCEPT !.last = Result("srv", "delete", n, "forbidden", FALSE, FALSE)]
             /\ UNCHANGED fs
        ELSE IF ~exists(target)
        THEN /\ cat' = [cat EXCEPT !.last = Result("srv", "delete", n, "notFound", FALSE, FALSE)]
             /\ UNCHANGED fs
        ELSE /\ fs' = Unlink(fs, target)
             /\ IF dataIsosIsArray
                THEN cat' = [cat EXCEPT
                       !.srv = [pc |-> "write", op |-> "delete", name |-> <<n>>,
                                url |-> <<>>, doc |-> removeIsoFromJson(n),
                                again |-> FALSE],
                       !.last = NoResult]
                ELSE cat' = [cat EXCEPT
                       !.last = Result("srv", "delete", n, "ok", FALSE, FALSE)]
     /\ UNCHANGED <<downloads, nextDownloadId, eng, isosJson, dl, rd, hf, upd, poll, lc>>

\* CLI: updateIsosJson(meta, downloadDir) after a download.  Nothing is
\* written when isos.json does not exist; an isos that is not an array makes
\* isos.filter throw.
C_Add(u) ==
  LET f == parseUrl(u)
  IN /\ cat.cli.pc = "idle"
     /\ exists(f)
     /\ IF ~isosJson.exists
        THEN cat' = [cat EXCEPT
               !.last = Result("cli", "add", Plain(f), "ok", FALSE, AddedBefore(f))]
        ELSE IF isosJson.form = "isosNotArray"
        THEN cat' = [cat EXCEPT
               !.last = Result("cli", "add", Plain(f), "TypeError", FALSE,
                               AddedBefore(f))]
        ELSE cat' = [cat EXCEPT
               !.cli = [pc |-> "write", op |-> "add", name |-> <<Plain(f)>>,
                        url |-> <<u>>, doc |-> updateIsosJson(CliMeta(u), FALSE),
                        again |-> AddedBefore(f)],
               !.last = NoResult]
     /\ UNCHANGED <<downloads, nextDownloadId, eng, fs, isosJson, dl, rd, hf, upd, poll, lc>>

\* CLI: deleteArchiveIso(filename)
C_Delete(n) ==
  LET dir == joinDir(n)
      inside == dir = "ISO-Archive"
      there == IF inside THEN exists(basename(n))
               ELSE [dir |-> dir, base |-> basename(n)] \in cat.outside
  IN /\ cat.cli.pc = "idle"
     /\ IF ~startsWithArchivePath(dir)
        THEN /\ cat' = [cat EXCEPT !.last = Result("cli", "delete", n, "refused", FALSE, FALSE)]
             /\ UNCHANGED fs
        ELSE IF ~there
        THEN /\ cat' = [cat EXCEPT !.last = Result("cli", "delete", n, "notFound", FALSE, FALSE)]
             /\ UNCHANGED fs
        ELSE LET outside == IF inside THEN cat.outside
                            ELSE cat.outside \ {[dir |-> dir, base |-> basename(n)]}
             IN /\ fs' = IF inside THEN Unlink(fs, basename(n)) ELSE fs
                /\ IF isosJson.exists
                   THEN cat' = [cat EXCEPT
                          !.cli = [pc |-> "write", op |-> "delete", name |-> <<n>>,
                                   url |-> <<>>,
                                   doc |-> writeIsosJson(withoutFilename(readIsosJson, n)),
                                   again |-> FALSE],
                          !.outside = outside,
                          !.last = NoResult]
                   ELSE cat' = [cat EXCEPT
                          !.outside = outside,
                          !.last = Result("cli", "delete", n, "ok", FALSE, FALSE)]
     /\ UNCHANGED <<downloads, nextDownloadId, eng, isosJson, dl, rd, hf, upd, poll, lc>>

\* What the caller sees of an operation whose write failed: the server's
\* addIsoToJson returns false; its delete handler answers 200 whatever
\* removeIsoFromJson returned; the CLI's delete catches and warns; the CLI's
\* updateIsosJson lets the exception out.
WriteFailed(w, op) ==
  IF op = "add" THEN (IF w = "cli" THEN "WriteError" ELSE "false") ELSE "ok"

\* fs.writeFileSync, first half: open the file truncating it
W_Truncate(w, openOk) ==
  /\ cat[w].pc = "write"
  /\ IF openOk
     THEN /\ isosJson' = Unreadable("garbage")
          /\ cat' = [cat EXCEPT ![w].pc = "writing", !.foreign = FALSE,
                                !.last = NoResult]
     ELSE /\ UNCHANGED isosJson
          /\ cat' = [cat EXCEPT
               ![w] = OpIdle,
               !.last = Result(w, cat[w].op, cat[w].name[1],
                               WriteFailed(w, cat[w].op), FALSE, cat[w].again)]
  /\ UNCHANGED <<downloads, nextDownloadId, eng, fs, dl, rd, hf, upd, poll, lc>>

\* fs.writeFileSync, second half: write the document, or fail part-way
W_Finish(w, ok) ==
  /\ cat[w].pc = "writing"
  /\ isosJson' = IF ok THEN cat[w].doc ELSE Unreadable("garbage")
  /\ cat' = [cat EXCEPT
       ![w] = OpIdle,
       !.foreign = FALSE,
       !.last = Result(w, cat[w].op, cat[w].name[1],
                       IF ok THEN "ok" ELSE WriteFailed(w, cat[w].op), ok,
                       cat[w].again)]
  /\ UNCHANGED <<downloads, nextDownloadId, eng, fs, dl, rd, hf, upd, poll, lc>>

\* Something other than the two programs replaces or removes isos.json
ForeignEdit(content) ==
  /\ ~cat.foreign
  /\ cat.srv.pc = "idle" /\ cat.cli.pc = "idle"
  /\ content \in {NoCatalog} \cup { Unreadable(form) : form \in CorruptForms }
  /\ content # isosJson
  /\ isosJson' = content
  /\ cat' = [cat EXCEPT !.foreign = TRUE, !.last = NoResult]
  /\ UNCHANGED <<downloads, nextDownloadId, eng, fs, dl, rd, hf, upd, poll, lc>>

Writers == {"srv", "cli"}

CatNext ==
  \/ \E u \in CatUrls : Cat_Download(u)
  \/ \E u \in CatUrls : S_Add(u)
  \/ \E u \in CatUrls : S_Find(parseUrl(u))
  \/ \E n \in DeleteNames : S_Delete(n)
  \/ \E u \in CatUrls : C_Add(u)
  \/ \E n \in DeleteNames : C_Delete(n)
  \/ \E w \in Writers, openOk \in BOOLEAN : W_Truncate(w, openOk)
  \/ \E w \in Writers, ok \in BOOLEAN : W_Finish(w, ok)
  \/ \E form \in CorruptForms : ForeignEdit(Unreadable(form))
  \/ ForeignEdit(NoCatalog)

\* The archive directory under the server's and the CLI's catalog operations
CatSpec == Init /\ [][CatNext]_vars

\* -------------------------------------------------------------- redirects
\* One call of followRedirects, of fetchData (iso-manager.js), of fetchData
\* (iso-downloader), or one download by either engine, against one topology.
\* rd.at is the URL the call is at, rd.requests the requests it has issued.
RedirectOps == {"followRedirects", "fetchData", "dlFetchData", "E1", "E3"}

Rd_Start(op, topo) ==
  /\ rd.op = "idle"
  /\ rd' = [op |-> op,
            phase |-> IF op \in {"followRedirects", "E1"} THEN "probe" ELSE "get",
            topo |-> topo, at |-> 0,
            count |-> IF op = "fetchData" THEN maxRedirects ELSE 0,
            requests |-> 0, outcome |-> "none"]
  /\ UNCHANGED <<downloads, nextDownloadId, eng, fs, isosJson, dl, cat, hf, upd, poll, lc>>

\* followRedirects returns currentUrl: the result of the call, or for the
\* engine the finalUrl it then requests
Returned(r) ==
  IF r.op = "E1" THEN [r EXCEPT !.phase = "get"]
  ELSE [r EXCEPT !.phase = "done", !.outcome = "returned"]

\* followRedirects, one iteration of for (i < maxRedirects): request
\* currentUrl; on 301/302 move to the location, else return currentUrl
followRedirects_Request ==
  /\ rd.phase = "probe" /\ rd.count < maxRedirects
  /\ rd.requests < MaxRequests
  /\ LET r == [rd EXCEPT !.requests = @ + 1]
     IN rd' = IF IsRedirect(rd.topo, rd.at)
              THEN [r EXCEPT !.at = Location(rd.topo, rd.at), !.count = @ + 1]
              ELSE Returned(r)
  /\ UNCHANGED <<downloads, nextDownloadId, eng, fs, isosJson, dl, cat, hf, upd, poll, lc>>

\* followRedirects, the loop has run maxRedirects times: return currentUrl
followRedirects_Return ==
  /\ rd.phase = "probe" /\ rd.count >= maxRedirects
  /\ rd' = Returned(rd)
  /\ UNCHANGED <<downloads, nextDownloadId, eng, fs, isosJson, dl, cat, hf, upd, poll, lc>>

\* fetchData of iso-manager.js: a redirect with maxRedirects <= 0 rejects,
\* else it recurses with maxRedirects - 1; 200 resolves
fetchData_Response ==
  /\ rd.op = "fetchData" /\ rd.phase = "get"
  /\ rd.requests < MaxRequests
  /\ LET r == [rd EXCEPT !.requests = @ + 1]
     IN rd' = IF IsRedirect(rd.topo, rd.at)
              THEN IF rd.count <= 0
                   THEN [r EXCEPT !.phase = "done", !.outcome = "TooManyRedirects"]
                   ELSE [r EXCEPT !.at = Location(rd.topo, rd.at), !.count = @ - 1]
              ELSE [r EXCEPT !.phase = "done", !.outcome = "resolved"]
  /\ UNCHANGED <<downloads, nextDownloadId, eng, fs, isosJson, dl, cat, hf, upd, poll, lc>>

\* fetchData of iso-downloader: redirectCount++, reject when it exceeds
\* maxRedirects
dlFetchData_Response ==
  /\ rd.op = "dlFetchData" /\ rd.phase = "get"
  /\ rd.requests < MaxRequests
  /\ LET r == [rd EXCEPT !.requests = @ + 1]
     IN rd' = IF IsRedirect(rd.topo, rd.at)
              THEN IF rd.count + 1 > maxRedirects
                   THEN [r EXCEPT !.phase = "done", !.count = @ + 1,
                                  !.outcome = "TooManyRedirects"]
                   ELSE [r EXCEPT !.at = Location(rd.topo, rd.at), !.count = @ + 1]
              ELSE [r EXCEPT !.phase = "done", !.outcome = "resolved"]
  /\ UNCHANGED <<downloads, nextDownloadId, eng, fs, isosJson, dl, cat, hf, upd, poll, lc>>

\* IsoManager.downloadAndVerifyFile, httpModule.get(finalUrl): on 301/302 it
\* calls itself with the location, which resolves redirects afresh; on 200
\* the transfer from finalUrl begins
E1_Get ==
  /\ rd.op = "E1" /\ rd.phase = "get"
  /\ rd.requests < MaxRequests
  /\ LET r == [rd EXCEPT !.requests = @ + 1]
     IN rd' = IF IsRedirect(rd.topo, rd.at)
              THEN [r EXCEPT !.at = Location(rd.topo, rd.at), !.count = 0,
                             !.phase = "probe"]
              ELSE [r EXCEPT !.phase = "done", !.outcome = "transfer"]
  /\ UNCHANGED <<downloads, nextDownloadId, eng, fs, isosJson, dl, cat, hf, upd, poll, lc>>

\* iso-downloader's downloadAndVerifyFile, httpModule.get(url): on a 3xx with
\* a location it calls itself with the location; on 200 the transfer begins
E3_Get ==
  /\ rd.op = "E3" /\ rd.phase = "get"
  /\ rd.requests < MaxRequests
  /\ LET r == [rd EXCEPT !.requests = @ + 1]
     IN rd' = IF IsRedirect(rd.topo, rd.at)
              THEN [r EXCEPT !.at = Location(rd.topo, rd.at)]
              ELSE [r EXCEPT !.phase = "done", !.outcome = "transfer"]
  /\ UNCHANGED <<downloads, nextDownloadId, eng, fs, isosJson, dl, cat, hf, upd, poll, lc>>

RedirNext ==
  \/ \E op \in RedirectOps, topo \in Topologies : Rd_Start(op, topo)
  \/ followRedirects_Request
  \/ followRedirects_Return
  \/ fetchData_Response
  \/ dlFetchData_Response
  \/ E1_Get
  \/ E3_Get

\* Redirect resolution, fetches and downloads against every topology
RedirSpec == Init /\ [][RedirNext]_vars

\* ---------------------------------------------------------- hash discovery
\* findHashFile and extractHashFromFile exist twice: in iso-manager.js
\* ("manager") and in iso-hash-verifier.js ("verifier").
Algorithms == {"sha256", "md5"}

\* hashAlgorithm.toUpperCase()
toUpperCase(hashAlgorithm) == IF hashAlgorithm = "sha256" THEN "SHA256" ELSE "MD5"

\* The URL of an ISO: the site, the number of directories between the host
\* and the file, and the last path segment (none for a URL ending in '/')
HashUrls ==
  { [site |-> s, depth |-> d, file |-> f] :
      s \in {"mirror", "ubuntu.com"}, d \in 0..1,
      f \in {<<FileName("ubuntu", <<22, 4>>)>>, <<>>} }

\* A file name as it is written in a checksum file: the ISO's name, possibly
\* in capitals, possibly followed by a suffix (the .zsync file of the ISO)
WrittenName(f, suffix, caps) == [file |-> f, suffix |-> suffix, caps |-> caps]
WrittenNames ==
  { WrittenName(FileName("ubuntu", <<22, 4>>), "", FALSE),
    WrittenName(FileName("ubuntu", <<22, 4>>), "", TRUE),
    WrittenName(FileName("ubuntu", <<22, 4>>), ".zsync", FALSE),
    WrittenName(FileName("ubuntu", <<24, 4>>), "", FALSE) }

\* The hash a checksum file lists for a name: one per file, in either case
ListedHash(name, upper) == [hex |-> <<[file |-> name.file, suffix |-> name.suffix]>>, upper |-> upper]

\* The lines of a checksum file: "<hash>  <name>", a blank line, a comment,
\* and a line that is a hash and nothing else
EntryLine(name, upper) == [kind |-> "entry", hash |-> ListedHash(name, upper), name |-> <<name>>]
BlankLine == [kind |-> "blank", hash |-> EmptyHash, name |-> <<>>]
CommentLine == [kind |-> "comment", hash |-> EmptyHash, name |-> <<>>]
HashOnlyLine == [kind |-> "hashOnly", hash |-> [hex |-> <<"bare">>, upper |-> TRUE], name |-> <<>>]
Lines ==
  { EntryLine(n, up) : n \in WrittenNames, up \in BOOLEAN }
    \cup {BlankLine, CommentLine, HashOnlyLine}

Texts == UNION { [1..n -> Lines] : n \in 0..MaxLines }

\* What a function gives back: a value (<<>> is '' or null) or an exception
Value(h) == [kind |-> "value", hash |-> h]
Thrown == [kind |-> "throw", hash |-> <<>>]

\* extractHashFromFile of iso-manager.js.  Content that is empty or blank
\* gives ''.  For the first non-blank line it builds
\*   new RegExp(`^([a-fA-F0-9]{32,128})\s+(?:\*|\s)${escapeRegExp(filename)}$`)
\* from a template literal, in which \s is the letter s and \* is a bare *:
\* the pattern (?:*|s) has nothing to repeat and the constructor throws a
\* SyntaxError before any format is tried.
extractHashFromFile(fileContent, filename, hashAlgorithm) ==
  IF \A i \in 1..Len(fileContent) : fileContent[i].kind = "blank"
  THEN Value(<<>>)
  ELSE Thrown

\* line.toLowerCase().includes(filename.toLowerCase()), and the line is
\* neither a comment nor blank
includesFilename(line, filename) ==
  line.kind = "entry" /\ line.name[1].file = filename

\* fileContent.split('\n').find(...): the first such line, 0 when none
hashLine(fileContent, filename) ==
  IF \E i \in 1..Len(fileContent) : includesFilename(fileContent[i], filename)
  THEN CHOOSE i \in 1..Len(fileContent) :
         /\ includesFilename(fileContent[i], filename)
         /\ \A k \in 1..(i - 1) : ~includesFilename(fileContent[k], filename)
  ELSE 0

\* fileContent.trim().match(/^[0-9a-fA-F]+$/): one line that is a hash, with
\* blank lines around it at most
onlyAHash(fileContent) ==
  /\ \E i \in 1..Len(fileContent) : fileContent[i].kind = "hashOnly"
  /\ \A i, k \in 1..Len(fileContent) :
       fileContent[i].kind # "blank" /\ fileContent[k].kind # "blank" => i = k
  /\ \A i \in 1..Len(fileContent) : fileContent[i].kind \in {"blank", "hashOnly"}

\* extractHashFromFile of iso-hash-verifier.js: the hash at the start of the
\* first line that contains the filename, else a content that is one hash
verifier_extractHashFromFile(fileContent, filename, hashAlgorithm) ==
  LET i == hashLine(fileContent, filename)
  IN IF i > 0 THEN Value(<<toLowerCase(fileContent[i].hash)>>)
     ELSE IF onlyAHash(fileContent)
          THEN Value(<<toLowerCase(HashOnlyLine.hash)>>)
          ELSE Value(<<>>)

\* A hash file name: the ISO's filename (or nothing) followed by text
Pattern(file, text) == [file |-> file, text |-> text]
\* A candidate URL: a pattern in the ISO's directory (level = depth) or in
\* the directory above it
Candidate(level, pattern) == [level |-> level, pattern |-> pattern]

\* new Set(patterns): the first occurrence of each element, in order
newSet(patterns) ==
  LET F[i \in 0..Len(patterns)] ==
        IF i = 0 THEN <<>>
        ELSE IF \E k \in 1..(i - 1) : patterns[k] = patterns[i]
             THEN F[i - 1]
             ELSE Append(F[i - 1], patterns[i])
  IN F[Len(patterns)]

\* findHashFile of iso-manager.js: patterns, with the default hashMatch
\* '{filename}.{hashAlgorithm}'
patterns(isoUrl, hashAlgorithm) ==
  << Pattern(isoUrl.file, "." \o hashAlgorithm),
     Pattern(isoUrl.file, "." \o hashAlgorithm),
     Pattern(isoUrl.file, "." \o hashAlgorithm \o "sum"),
     Pattern(<<>>, hashAlgorithm \o "sums.txt"),
     Pattern(<<>>, hashAlgorithm \o "sum.txt"),
     Pattern(<<>>, "SHA" \o toUpperCase(hashAlgorithm) \o "SUMS"),
     Pattern(<<>>, toUpperCase(hashAlgorithm) \o "SUMS"),
     Pattern(<<>>, "SUMS." \o hashAlgorithm),
     Pattern(<<>>, "CHECKSUM." \o hashAlgorithm),
     Pattern(<<>>, hashAlgorithm \o ".txt") >>
  \o (IF isoUrl.site = "ubuntu.com" THEN << Pattern(<<>>, "SHA256SUMS") >> ELSE << >>)

\* findHashFile of iso-manager.js: the patterns tried in the parent directory
parentPatterns(hashAlgorithm) ==
  << Pattern(<<>>, "SHA256SUMS"),
     Pattern(<<>>, "sha256sum.txt"),
     Pattern(<<>>, toUpperCase(hashAlgorithm) \o "SUMS") >>

\* findHashFile of iso-manager.js: the URLs it fetches, in order.  The parent
\* directory is tried when baseUrl has more than two non-empty segments.
hashFileUrls(isoUrl, hashAlgorithm) ==
  LET same   == newSet(patterns(isoUrl, hashAlgorithm))
      parent == newSet(parentPatterns(hashAlgorithm))
  IN [i \in 1..Len(same) |-> Candidate(isoUrl.depth, same[i])]
     \o (IF isoUrl.depth > 0
         THEN [i \in 1..Len(parent) |-> Candidate(isoUrl.depth - 1, parent[i])]
         ELSE << >>)

\* findHashFile of iso-hash-verifier.js: potentialHashUrls
potentialHashUrls(isoUrl, hashAlgorithm) ==
  LET same == << Pattern(isoUrl.file, "." \o hashAlgorithm),
                 Pattern(isoUrl.file, "." \o hashAlgorithm),
                 Pattern(<<>>, hashAlgorithm \o "sum.txt"),
                 Pattern(<<>>, hashAlgorithm \o "sums.txt"),
                 Pattern(<<>>, "hashes." \o hashAlgorithm),
                 Pattern(<<>>, "hashes.txt"),
                 Pattern(<<>>, "HASHES"),
                 Pattern(<<>>, "CHECKSUM"),
                 Pattern(<<>>, "SHA256SUMS"),
                 Pattern(<<>>, "MD5SUMS") >>
      parent == << Pattern(<<>>, hashAlgorithm \o "sum.txt"),
                   Pattern(<<>>, "hashes.txt") >>
  IN [i \in 1..Len(same) |-> Candidate(isoUrl.depth, same[i])]
     \o [i \in 1..Len(parent) |-> Candidate(isoUrl.depth - 1, parent[i])]

Implementations == {"manager", "verifier"}

\* What fetching a candidate gives: no connection, an HTTP error status, or
\* the content of the file (an empty file or a file of one line)
Responses ==
  { [kind |-> k, text |-> <<>>] : k \in {"unreachable", "httpError"} }
    \cup { [kind |-> "content", text |-> t] : t \in { <<>> } \cup { <<l>> : l \in Lines } }

CandidatesOf(h) ==
  IF h.impl = "manager" THEN hashFileUrls(h.url[1], h.algo)
  ELSE potentialHashUrls(h.url[1], h.algo)

\* try { ... extractHashFromFile(...) ... } catch (error) { continue; }
\* An exception of the extraction ends the iteration like a failed fetch.
tryExtract_Rethrow(impl, text, filename, hashAlgorithm) ==
  IF impl = "manager" THEN extractHashFromFile(text, filename, hashAlgorithm)
  ELSE IF text = <<>> THEN Value(<<>>)
  ELSE verifier_extractHashFromFile(text, filename, hashAlgorithm)

tryExtract(impl, text, filename, hashAlgorithm) ==
  LET r == IF impl = "manager" THEN extractHashFromFile(text, filename, hashAlgorithm)
           ELSE IF text = <<>> THEN Value(<<>>)
           ELSE verifier_extractHashFromFile(text, filename, hashAlgorithm)
  IN IF r.kind = "throw" THEN Value(<<>>) ELSE r

\* findHashFile(isoUrl, hashAlgorithm) is called.  Without a filename in the
\* URL, iso-manager.js returns '' and iso-hash-verifier.js throws into its
\* own catch and returns null.
HF_Start(impl, isoUrl, hashAlgorithm) ==
  /\ hf.outcome = "idle"
  /\ hf' = [HfIdle EXCEPT !.impl = impl, !.url = <<isoUrl>>, !.algo = hashAlgorithm,
                          !.outcome = IF isoUrl.file = <<>> THEN "notFound" ELSE "running"]
  /\ UNCHANGED <<downloads, nextDownloadId, eng, fs, isosJson, dl, cat, rd, upd, poll, lc>>

\* One iteration of the loop over the candidates: fetchData(hashFileUrl),
\* then the extraction; a hash ends the search, anything else continues it
HF_Fetch(response) ==
  /\ hf.outcome = "running"
  /\ hf.idx < Len(CandidatesOf(hf))
  /\ LET c == CandidatesOf(hf)[hf.idx + 1]
         h == [hf EXCEPT !.idx = @ + 1, !.fetched = Append(@, c), !.last = <<response>>]
         r == IF response.kind = "content"
              THEN tryExtract(hf.impl, response.text, hf.url[1].file[1], hf.algo)
              ELSE Value(<<>>)
     IN hf' = IF r.kind = "throw" THEN [h EXCEPT !.outcome = "raised"]
              ELSE IF r.hash # <<>> THEN [h EXCEPT !.outcome = "found", !.hash = r.hash]
              ELSE h
  /\ UNCHANGED <<downloads, nextDownloadId, eng, fs, isosJson, dl, cat, rd, upd, poll, lc>>

\* Every candidate tried: return '' (iso-manager.js) or null
HF_Exhausted ==
  /\ hf.outcome = "running"
  /\ hf.idx = Len(CandidatesOf(hf))
  /\ hf' = [hf EXCEPT !.outcome = "notFound"]
  /\ UNCHANGED <<downloads, nextDownloadId, eng, fs, isosJson, dl, cat, rd, upd, poll, lc>>

\* extractHashFromFile(fileContent, filename, hashAlgorithm) called by itself
HF_Extract(impl, fileContent, filename, hashAlgorithm) ==
  /\ hf.outcome = "idle"
  /\ LET r == IF impl = "manager"
              THEN extractHashFromFile(fileContent, filename, hashAlgorithm)
              ELSE verifier_extractHashFromFile(fileContent, filename, hashAlgorithm)
     IN hf' = [HfIdle EXCEPT !.impl = impl, !.algo = hashAlgorithm,
                  !.url = <<[site |-> "mirror", depth |-> 0, file |-> <<filename>>]>>,
                  !.last = <<[kind |-> "content", text |-> fileContent]>>,
                  !.outcome = IF r.kind = "throw" THEN "threw" ELSE "extracted",
                  !.hash = r.hash]
  /\ UNCHANGED <<downloads, nextDownloadId, eng, fs, isosJson, dl, cat, rd, upd, poll, lc>>

HashNext ==
  \/ /\ hf.outcome = "idle"
     /\ \E impl \in Implementations, u \in HashUrls, a \in Algorithms : HF_Start(impl, u, a)
  \/ /\ hf.outcome = "running"
     /\ \E r \in Responses : HF_Fetch(r)
  \/ HF_Exhausted
  \/ /\ hf.outcome = "idle"
     /\ \E impl \in Implementations, t \in Texts, a \in Algorithms :
          HF_Extract(impl, t, FileName("ubuntu", <<22, 4>>), a)

\* Hash discovery and checksum-file parsing of both modules
HashSpec == Init /\ [][HashNext]_vars

\* -------------------------------------------------------- update detection
\* A version string is the sequence of its dot-separated parts, and a part
\* is its sequence of decimal digits: "2.10" is << <<2>>, <<1, 0>> >>.
Parts == { <<0>>, <<2>>, <<0, 2>>, <<1, 0>> }
VersionStrings == UNION { [1..n -> Parts] : n \in 1..MaxParts }

\* Number(part) of a string of digits
Number(part) ==
  LET F[i \in 0..Len(part)] == IF i = 0 THEN 0 ELSE 10 * F[i - 1] + part[i]
  IN F[Len(part)]

\* Math.max
max(a, b) == IF a > b THEN a ELSE b

\* The shorter version counts as the lower one when the common parts agree
compareVersions_ShorterIsLess(v1, v2) ==
  LET n == max(Len(v1), Len(v2))
      part1(i) == IF i <= Len(v1) THEN Number(v1[i]) ELSE -1
      part2(i) == IF i <= Len(v2) THEN Number(v2[i]) ELSE -1
      differ == { i \in 1..n : part1(i) # part2(i) }
  IN IF differ = {} THEN 0
     ELSE LET i == CHOOSE i \in differ : \A k \in differ : i <= k
          IN IF part1(i) > part2(i) THEN 1 ELSE -1

\* compareVersions(v1, v2): the parts as numbers, a missing part is 0; the
\* first index where they differ decides, 0 when none does
compareVersions(v1, v2) ==
  LET n == max(Len(v1), Len(v2))
      part1(i) == IF i <= Len(v1) THEN Number(v1[i]) ELSE 0
      part2(i) == IF i <= Len(v2) THEN Number(v2[i]) ELSE 0
      differ == { i \in 1..n : part1(i) # part2(i) }
  IN IF differ = {} THEN 0
     ELSE LET i == CHOOSE i \in differ : \A k \in differ : i <= k
          IN IF part1(i) > part2(i) THEN 1 ELSE -1

\* The digits of a number below 100, and the version string of a version
\* given by its numbers (the version 22.4 of a file name)
Numeral(n) == IF n < 10 THEN <<n>> ELSE <<n \div 10, n % 10>>
versionString(ver) == [i \in 1..Len(ver) |-> Numeral(ver[i])]

\* 1024 * 1024: sizes further apart than this count as an update
UpdateThreshold == 1048576
\* Sizes in bytes; 0 is "not known"
Sizes == {0, 1, 2 + UpdateThreshold}
\* fs.statSync(archivedFilePath).size of a file of the archive
StatSize(file) == 1

\* The files of the archive as fs.readdirSync lists them
ArchiveFiles == << FileName("ubuntu", <<22, 4>>), FileName("ubuntu", <<24, 4>>) >>
Listings == { SelectSeq(ArchiveFiles, LAMBDA f : f \in S) : S \in SUBSET { ArchiveFiles[1], ArchiveFiles[2] } }

\* Names of listing entries and of catalog records
IsoNames == { FileName("ubuntu", <<>>), FileName("debian", <<12>>) }
ListedVersions == { <<>>, << <<22, 4>> >>, << <<24, 4>> >>, << <<24, 4, 0>> >> }

\* A listing entry after processIsoDetails: its name (the key), the filename
\* of its URL, its version ('' is <<>>) and its size (0 when not given)
ListingEntries ==
  { [name |-> n, file |-> f, version |-> v, size |-> s] :
      n \in IsoNames, f \in { ArchiveFiles[1], ArchiveFiles[2] },
      v \in ListedVersions, s \in Sizes }

\* Catalog records, and the catalogs the writers leave: no filename twice
CatalogRecords ==
  { [name |-> n, filename |-> f, version |-> v, hash |-> EmptyHash, size |-> s] :
      n \in IsoNames, f \in { ArchiveFiles[1], ArchiveFiles[2] },
      v \in { <<>>, << <<22, 4>> >>, << <<24, 4>> >> }, s \in Sizes }
Catalogs ==
  { c \in UNION { [1..n -> CatalogRecords] : n \in 0..MaxRecords } :
      \A i, k \in 1..Len(c) : c[i].filename = c[k].filename => i = k }

\* files.includes(f)
includes(files, f) == \E i \in 1..Len(files) : files[i] = f

\* The test of the loop over the files: normalizedFile === normalizedName ||
\* file.includes(normalizedName) || normalizedName.includes(normalizedFile).
\* A file name is its stem, '-', its version; a normalized name is the stem
\* followed by the version when that is a single number.
relatedFile(file, normalizedName) ==
  \/ normalizeIsoName(file) = normalizedName
  \/ file.stem = normalizedName.stem /\ normalizedName.ver = <<>>
  \/ normalizedName.stem = file.stem /\ normalizeIsoName(file).ver = <<>>

\* The first related file of the archive, 0 when none
findRelated(files, normalizedName) ==
  IF \E i \in 1..Len(files) : relatedFile(files[i], normalizedName)
  THEN CHOOSE i \in 1..Len(files) :
         /\ relatedFile(files[i], normalizedName)
         /\ \A k \in 1..(i - 1) : ~relatedFile(files[k], normalizedName)
  ELSE 0

\* Math.abs
abs(x) == IF x < 0 THEN -x ELSE x

\* archivedVersion && newVersion && archivedVersion !== newVersion
versionsDiffer(archivedVersion, newVersion) ==
  archivedVersion # <<>> /\ newVersion # <<>> /\ archivedVersion # newVersion

\* markArchivedIsos, the body of its loop for one entry of the list: which
\* file and which record (an index into isos, 0 for none) the entry is
\* matched to, and the marks it gets
markArchivedIsos(name, details, files, isos) ==
  LET isoFilename == details.file
      normalizedName == normalizeIsoName(name)
      isoDataByName == findIndexByName(isos, normalizedName)
      byName == isoDataByName # 0 /\ includes(files, isos[isoDataByName].filename)
      byFile == ~byName /\ includes(files, isoFilename)
      related == IF byName \/ byFile THEN 0 ELSE findRelated(files, normalizedName)
      matchedFile == IF byName THEN <<isos[isoDataByName].filename>>
                     ELSE IF byFile THEN <<isoFilename>>
                     ELSE IF related # 0 THEN <<files[related]>>
                     ELSE <<>>
      matchedIsoData == IF byName THEN isoDataByName
                        ELSE IF matchedFile # <<>>
                             THEN findIndexByFilename(isos, matchedFile[1])
                             ELSE 0
      exactMatch == byName \/ byFile
      newVersion == IF details.version # <<>> THEN details.version
                    ELSE extractVersionFromFilename(isoFilename)
      higher(archivedVersion) ==
        /\ versionsDiffer(archivedVersion, newVersion)
        /\ compareVersions(versionString(newVersion[1]),
                           versionString(archivedVersion[1])) > 0
      updateAvailable ==
        IF matchedFile = <<>> THEN FALSE
        ELSE IF matchedIsoData # 0
        THEN IF versionsDiffer(isos[matchedIsoData].version, newVersion)
             THEN higher(isos[matchedIsoData].version)
             ELSE /\ details.size # 0 /\ isos[matchedIsoData].size # 0
                  /\ abs(details.size - isos[matchedIsoData].size) > UpdateThreshold
        ELSE \/ details.size # 0 /\ StatSize(matchedFile[1]) # details.size
             \/ /\ details.version # <<>> /\ ~exactMatch
                /\ higher(extractVersionFromFilename(matchedFile[1]))
  IN [inArchive |-> matchedFile # <<>>,
      updateAvailable |-> updateAvailable,
      filename |-> IF matchedFile # <<>> THEN matchedFile[1] ELSE isoFilename,
      matchedIsoData |-> matchedIsoData]

\* GET /api/isos marks one entry of the list against an archive and a catalog
Upd_Mark ==
  /\ upd.op = "idle"
  /\ \E e \in ListingEntries, files \in Listings, isos \in Catalogs :
       upd' = [UpdIdle EXCEPT !.op = "mark", !.name = e.name, !.details = <<e>>,
                              !.files = files, !.isos = isos,
                              !.marks = markArchivedIsos(e.name, e, files, isos)]
  /\ UNCHANGED <<downloads, nextDownloadId, eng, fs, isosJson, dl, cat, rd, hf, poll, lc>>

\* compareVersions(v1, v2) is called
Upd_Compare ==
  /\ upd.op = "idle"
  /\ \E v1, v2 \in VersionStrings :
       upd' = [UpdIdle EXCEPT !.op = "compareVersions", !.v1 = v1, !.v2 = v2,
                              !.result = compareVersions(v1, v2)]
  /\ UNCHANGED <<downloads, nextDownloadId, eng, fs, isosJson, dl, cat, rd, hf, poll, lc>>

UpdNext ==
  \/ Upd_Mark
  \/ Upd_Compare

\* Update detection and version comparison on every input
UpdSpec == Init /\ [][UpdNext]_vars

\* ---------------------------------------------------- web client: polling
\* The web client polls GET /api/download/:id of the first job.  It has two
\* polling loops: the setInterval of IsoManager.downloadIso and the
\* setTimeout chain of IsoManagerApp.prototype.pollDownloadProgress.
PollLoops == {"setInterval", "setTimeout"}
PolledJob == 1

\* The statuses at which a loop stops asking
stopsAt(loop) ==
  IF loop = "setInterval" THEN {"completed", "failed", "cancelled", "paused"}
  ELSE {"completed", "error"}

\* The POST's answer has arrived with the downloadId: polling begins
Poll_Start(loop) ==
  /\ poll.op = "idle"
  /\ PolledJob \in DOMAIN downloads
  /\ poll' = [PollIdle EXCEPT !.op = "polling", !.loop = loop]
  /\ UNCHANGED <<downloads, nextDownloadId, eng, fs, isosJson, dl, cat, rd, hf, upd, lc>>

\* The timer fires: fetch(`/api/download/${downloadId}`), then the handling
\* of the status in the answer.  clearInterval, or not re-arming the
\* timeout, ends the loop.  late records a request issued after an answer
\* has already shown the job ended.
Poll_Tick ==
  /\ poll.op = "polling"
  /\ LET answer == status(PolledJob)[1].status
     IN poll' = [poll EXCEPT
                   !.op = IF answer \in stopsAt(poll.loop) THEN "stopped" ELSE "polling",
                   !.seen = answer,
                   !.late = poll.late \/ poll.seen \in {"completed", "error"}]
  /\ UNCHANGED <<downloads, nextDownloadId, eng, fs, isosJson, dl, cat, rd, hf, upd, lc>>

PollNext ==
  \/ Next
  \/ \E loop \in PollLoops : Poll_Start(loop)
  \/ Poll_Tick

\* The web server with the web client polling its first job
PollSpec == Init /\ [][PollNext]_vars

\* ------------------------------------------------- server: listing cache
\* The URLs a listing is asked for: the default list and another one
ListUrls == {"default", "other"}

\* An answer of GET /api/isos: the URL asked for and the URL the listing in
\* the answer was fetched from (<<>> for a 500 answer)
Answer(url, from) == [url |-> <<url>>, from |-> from]

\* The fetches of a list that can be in flight, each for one endpoint
Fetches ==
  { [url |-> u, endpoint |-> "isos"] : u \in ListUrls }
    \cup { [url |-> "default", endpoint |-> "refresh"] }

\* checkAndUpdateIsoList(url): the cached list is used when there is one and
\* it is younger than ISO_CACHE_DURATION
cacheValid == lc.isoListCache # <<>> /\ lc.fresh

\* app.get('/api/isos') with ?url=u: answered from the cache, or a fetch of u
\* begins
Lc_GetIsos(u) ==
  /\ IF cacheValid
     THEN lc' = [lc EXCEPT !.last = Answer(u, lc.isoListCache)]
     ELSE /\ [url |-> u, endpoint |-> "isos"] \notin lc.fetching
          /\ lc' = [lc EXCEPT !.fetching = @ \cup {[url |-> u, endpoint |-> "isos"]}]
  /\ UNCHANGED <<downloads, nextDownloadId, eng, fs, isosJson, dl, cat, rd, hf, upd, poll>>

\* app.get('/api/refresh-isos'): the cache is cleared and the default list
\* fetched
Lc_Refresh ==
  /\ [url |-> "default", endpoint |-> "refresh"] \notin lc.fetching
  /\ lc' = [lc EXCEPT !.isoListCache = <<>>, !.fresh = FALSE,
                      !.fetching = @ \cup {[url |-> "default", endpoint |-> "refresh"]}]
  /\ UNCHANGED <<downloads, nextDownloadId, eng, fs, isosJson, dl, cat, rd, hf, upd, poll>>

\* The fetch of a list ends.  A good list is cached and given to the
\* endpoint, which answers with it; a failure rejects and the endpoint
\* answers 500.
Lc_Fetched(r, ok) ==
  /\ r \in lc.fetching
  /\ lc' = [lc EXCEPT
              !.fetching = @ \ {r},
              !.isoListCache = IF ok THEN <<r.url>> ELSE @,
              !.fresh = IF ok THEN TRUE ELSE @,
              !.last = IF r.endpoint = "isos"
                       THEN Answer(r.url, IF ok THEN <<r.url>> ELSE <<>>)
                       ELSE @]
  /\ UNCHANGED <<downloads, nextDownloadId, eng, fs, isosJson, dl, cat, rd, hf, upd, poll>>

\* ISO_CACHE_DURATION passes since the list was cached
Lc_Expire ==
  /\ lc.isoListCache # <<>> /\ lc.fresh
  /\ lc' = [lc EXCEPT !.fresh = FALSE]
  /\ UNCHANGED <<downloads, nextDownloadId, eng, fs, isosJson, dl, cat, rd, hf, upd, poll>>

ListNext ==
  \/ \E u \in ListUrls : Lc_GetIsos(u)
  \/ Lc_Refresh
  \/ \E r \in Fetches, ok \in BOOLEAN : Lc_Fetched(r, ok)
  \/ Lc_Expire

\* The listing endpoints of the server and their cache
ListSpec == Init /\ [][ListNext]_vars

\* ------------------------------------------------------------------ claims
Jobs == DOMAIN downloads

\* The file a job downloads to: path.basename(result.filePath)
JobFile(j) == parseUrl(downloads[j].url)

HasRecord(f) == \E i \in 1..Len(readIsosJson) : readIsosJson[i].filename = f

\* Everything the engine can still do for job j
JobStep(j) ==
  \/ \E ok \in BOOLEAN : E1_Open(j, ok)
  \/ \E code \in HttpCodes, known \in BOOLEAN : E1_Response(j, code, known)
  \/ E1_RequestError(j)
  \/ E1_Data(j)
  \/ E1_FileError(j)
  \/ E1_End(j)

\* C1: once a job's status is terminal (completed, error, cancelled, paused)
\* no later step changes it; a progress callback that arrives after the job
\* ended does not put it back to downloading.
C1_TerminalIsFinal ==
  [][\A j \in Jobs : Terminal(downloads[j].status)
        => downloads'[j].status = downloads[j].status]_vars

\* C2: whenever a job is completed and its file is still in the archive
\* directory, the catalog has a record with the job's final file name.
C2_CompletedHasRecord ==
  \A j \in Jobs :
    downloads[j].status = "completed" /\ exists(JobFile(j)) => HasRecord(JobFile(j))

\* C3: when the engine fails, the job goes to state error with the error's
\* message stored on it, the catalog is left as it was, and from then on the
\* job stays in state error with that message.
C3_FailureEndsInError ==
  [][\A j \in Jobs :
       /\ eng[j].settled = "pending" /\ eng'[j].settled = "rejected"
            => /\ downloads'[j].status = "error"
               /\ downloads'[j].error \in
                     {<<"File write error">>, <<"HTTP error">>, <<"request error">>}
               /\ downloads'[j].result = <<>>
               /\ isosJson' = isosJson
       /\ eng[j].settled = "rejected"
            => /\ downloads'[j].status = "error"
               /\ downloads'[j].error = downloads[j].error]_vars

\* C4: while a job is downloading, the progress that successive updates
\* store (and successive polls therefore return) never decreases, and neither
\* does the engine's count of bytes transferred.
C4_ProgressMonotone ==
  [][\A j \in Jobs :
       /\ downloads[j].status = "downloading" /\ downloads'[j].status = "downloading"
            => downloads'[j].progress >= downloads[j].progress
       /\ eng[j].pc = "streaming" /\ eng'[j].pc = "streaming"
            => eng'[j].sent >= eng[j].sent]_vars

\* C4 witness: a downloading job that has had at least two progress updates
C4_Witness ==
  \E j \in Jobs : /\ downloads[j].status = "downloading"
                  /\ eng[j].pc = "streaming" /\ eng[j].sent >= 2
                  /\ eng[j].total > 0
                  /\ downloads[j].progress = percentage(eng[j].sent, eng[j].total)
                  /\ downloads[j].progress > 0

\* C5: every submitted job reaches a terminal state: in no state is a job
\* neither terminal nor able to take another step.
C5_TerminalOrRunning ==
  \A j \in Jobs : Terminal(downloads[j].status) \/ ENABLED JobStep(j)

\* C6: in every state of a job, error is set only in state error and result
\* is set only in state completed.
C6_ErrorAndResultFields ==
  \A j \in Jobs :
    /\ downloads[j].error # <<>> => downloads[j].status = "error"
    /\ downloads[j].result # <<>> => downloads[j].status = "completed"

\* C7: a job becomes completed only from downloading, never straight from
\* initializing.
C7_DownloadingBeforeCompleted ==
  [][\A j \in Jobs :
       downloads'[j].status = "completed" /\ downloads[j].status # "completed"
         => downloads[j].status = "downloading"]_vars

\* C8: every id handed out stays in the registry, and a job whose engine
\* failed is returned by status(id) in state error with a non-empty message.
C8_JobsStayQueryable ==
  /\ \A id \in 1..(nextDownloadId - 1) : status(id) # <<>>
  /\ \A j \in Jobs :
       eng[j].settled = "rejected"
         => /\ status(j)[1].status = "error"
            /\ status(j)[1].error # <<>> /\ status(j)[1].error # <<"">>

\* C9: for every completed job, the hash in the archive record of its file
\* is the digest of the bytes in the destination file.
C9_RecordHashIsDigest ==
  \A j \in Jobs :
    downloads[j].status = "completed" /\ exists(JobFile(j)) =>
      \A i \in 1..Len(readIsosJson) :
        readIsosJson[i].filename = JobFile(j)
          => readIsosJson[i].hash = Digest(fs[JobFile(j)])

\* iso-downloader's engine alone: a call whose expected hash differs from the
\* computed one, and whose body arrived in full, resolves with success = false
\* and both hashes, and keeps the file with the whole body; the server's
\* handlers would complete a job on that outcome.
DlComplete ==
  /\ dl.pc = "done" /\ dl.fileOk
  /\ dl.downloadedBytes = BodyLen(dl.url[1])

DlMismatch ==
  /\ dl.expectedHash # <<>>
  /\ toLowerCase(dl.expectedHash[1]) # Digest(Body(dl.url[1], BodyLen(dl.url[1])))

E3_MismatchIsReported ==
  DlComplete /\ DlMismatch =>
    LET o == dl.outcome[1]
        f == parseUrl(dl.url[1])
        job == [url |-> dl.url[1], progress |-> 0, status |-> "initializing",
                error |-> <<>>, result |-> <<>>]
    IN /\ o.kind = "resolved"
       /\ o.result[1].success = FALSE
       /\ o.result[1].expected = dl.expectedHash
       /\ exists(f) /\ fs[f] = Body(dl.url[1], BodyLen(dl.url[1]))
       /\ o.result[1].actual = <<Digest(fs[f])>>
       /\ TrackOutcome(job, o).status = "completed"
       /\ TrackOutcome(job, o).error = <<>>

E3_MismatchReached ==
  /\ DlComplete /\ DlMismatch
  /\ dl.outcome[1].kind = "resolved"
  /\ dl.outcome[1].result[1].success = FALSE

\* C10: a job whose request carried an expectedHash different from the hash of
\* the downloaded bytes is completed, not error, with a result whose success
\* is false and which carries the expected and the actual hash; the file is
\* kept.  The request's expectedHash is any of ExpectedHashes: the handler
\* does not read it.
C10_MismatchIsReported ==
  \A j \in Jobs : \A h \in ExpectedHashes(downloads[j].url) :
    (/\ eng[j].settled = "resolved"
     /\ h # <<>>
     /\ exists(JobFile(j))
     /\ toLowerCase(h[1]) # Digest(fs[JobFile(j)]))
    => /\ downloads[j].status = "completed"
       /\ downloads[j].error = <<>>
       /\ downloads[j].result # <<>>
       /\ downloads[j].result[1].success = FALSE
       /\ "expected" \in DOMAIN downloads[j].result[1]
       /\ downloads[j].result[1].expected = h
       /\ downloads[j].result[1].actual = <<Digest(fs[JobFile(j)])>>

\* The records of the catalog, and those with a given filename
Records == readIsosJson
RecordsOf(f) == { i \in 1..Len(Records) : Records[i].filename = f }

\* C11: after any sequence of adds and removes by the server and the CLI, no
\* two records of the catalog have the same filename.
C11_UniqueFilenames ==
  \A i, k \in 1..Len(Records) :
    Records[i].filename = Records[k].filename => i = k

\* C11 witness: the CLI has just added a filename a second time while the
\* catalog holds a record of another file as well
C11_Witness ==
  /\ Len(Records) = 2
  /\ cat.last.op = "add" /\ cat.last.again /\ cat.last.wrote

\* The record an add of file f by process w stores
AddedRecord(w, f) ==
  LET u == [host |-> "mirror", file |-> f]
  IN IF w = "cli" THEN CliMeta(u)
     ELSE [name |-> isoNameOf(u), filename |-> f,
           version |-> extractVersionFromFilename(f), hash |-> EmptyHash,
           size |-> IF exists(f) THEN Len(fs[f]) ELSE 0]

\* C12: when an add of a filename follows an add of the same filename, the
\* catalog has exactly one record of that filename, and the record is the
\* second call's data in every field.
C12_SecondAddReplaces ==
  cat.last.op = "add" /\ cat.last.again /\ cat.last.response = "ok" =>
    LET f == cat.last.name[1].base
    IN /\ Cardinality(RecordsOf(f)) = 1
       /\ \A i \in RecordsOf(f) :
            /\ [Records[i] EXCEPT !.size = 0]
                 = [AddedRecord(cat.last.who, f) EXCEPT !.size = 0]
            /\ Records[i].size = Len(Body([host |-> "mirror", file |-> f],
                                          BodyLen([host |-> "mirror", file |-> f])))

\* The document the operation in flight in process w would write if it read
\* the catalog now
Recompute(w) ==
  LET o == cat[w]
  IN IF o.op = "add"
     THEN IF w = "srv" THEN CommitToCatalog(o.url[1], E1_Result(o.url[1]))
          ELSE updateIsosJson(CliMeta(o.url[1]), FALSE)
     ELSE writeIsosJson(withoutFilename(readIsosJson, o.name[1]))

\* The records of document d under other filenames than the one n names
OtherRecords(d, n) ==
  { d.isos[i] : i \in { k \in 1..Len(d.isos) : ~SameName(d.isos[k].filename, n) } }

\* C13: when a writer's document lands in isos.json, it holds the records of
\* all other filenames as they are in the catalog at that moment: an update
\* another writer made since this writer read the catalog is not lost.
C13_NoLostUpdate ==
  [][\A w \in Writers :
       cat[w].pc = "write" /\ cat'[w].pc = "writing" /\ ~cat.foreign
         => OtherRecords(cat[w].doc, cat[w].name[1])
              = OtherRecords(Recompute(w), cat[w].name[1])]_vars

\* C14: at every instant isos.json, unless something other than the two
\* programs put its content there, is a complete document with an isos array.
C14_AlwaysADocument ==
  isosJson.exists /\ ~cat.foreign => isosJson.form = "doc"

\* C15: no catalog operation throws on a missing or malformed isos.json.
C15_CorruptReadsAsEmpty ==
  cat.last.response # "TypeError"

\* C16: a delete whose filename points outside the archive directory is
\* rejected as a path traversal and changes nothing: no file inside or
\* outside the archive is deleted and the catalog is as before.
C16_TraversalRejected ==
  [][\A n \in TraversalNames :
       S_Delete(n) \/ C_Delete(n)
         => /\ cat'.last.response \in {"forbidden", "refused"}
            /\ fs' = fs
            /\ cat'.outside = cat.outside
            /\ isosJson' = isosJson]_vars

\* C17: a delete of a file of the archive that goes ahead removes the file,
\* and once it has reported success the catalog has no record of the file's
\* name for as long as the file is not downloaded again.
C17_DeletedIsGone ==
  [][\A u \in CatUrls :
       LET f == parseUrl(u)
       IN /\ (S_Delete(Plain(f)) \/ C_Delete(Plain(f))) /\ exists(f)
               => ~(f \in DOMAIN fs')
          /\ ( /\ cat'.last.op = "delete" /\ cat'.last.response = "ok"
               /\ cat'.last.name = <<Plain(f)>>
               /\ ~(f \in DOMAIN fs') )
               => \A i \in 1..Len(readIsosJson') : readIsosJson'[i].filename # f]_vars

\* C18: when a download ends in an error, no file is at its destination path.
C18_NoPartialFile ==
  [][\A j \in Jobs :
       eng[j].settled = "pending" /\ eng'[j].settled = "rejected"
         => ~(JobFile(j) \in DOMAIN fs')]_vars

\* C19: a resolution, fetch or download whose URL leads through more
\* redirects than maxRedirects ends with TooManyRedirects: it returns no URL
\* and starts no transfer.
C19_TooManyRedirects ==
  rd.outcome # "none" /\ ~rd.topo.loop /\ rd.topo.hops > maxRedirects
    => rd.outcome = "TooManyRedirects"

\* C20: whatever the topology, a cycle included, one resolution, fetch or
\* download issues at most the first request and one request per allowed hop.
C20_RequestsBounded ==
  rd.requests <= maxRedirects + 1

\* C21: a download whose destination file already exists fails (no force
\* flag is set by any caller) and leaves the file's content as it was.
C21_ExistingFileKept ==
  [][\A j \in Jobs :
       /\ j \in DOMAIN eng /\ j \in DOMAIN eng'
       /\ eng[j].pc = "redirects" /\ eng'[j].pc # "redirects"
       /\ exists(JobFile(j))
       => /\ eng'[j].settled = "rejected"
          /\ JobFile(j) \in DOMAIN fs'
          /\ fs'[JobFile(j)] = fs[JobFile(j)]]_vars

\* A line "<hash>  <filename>" for exactly this filename, in any letter case
IsEntryFor(line, filename) ==
  line.kind = "entry" /\ line.name[1].file = filename /\ line.name[1].suffix = ""
HasEntryFor(text, filename) ==
  \E i \in 1..Len(text) : IsEntryFor(text[i], filename)
\* The hash the checksum files list for the filename, in lowercase
LowercaseHashOf(filename) ==
  toLowerCase(ListedHash(WrittenName(filename, "", FALSE), TRUE))
NoDuplicates(s) == \A i, k \in 1..Len(s) : s[i] = s[k] => i = k

\* C22: findHashFile fetches the candidates one at a time, none of them
\* twice and those of the ISO's directory before those of the parent; the
\* fetch that brings a checksum file with a line for the target filename
\* ends the search with that hash.
C22_FirstYieldingCandidateWins ==
  [][hf.outcome = "running" /\ hf'.idx = hf.idx + 1
       => /\ NoDuplicates(hf'.fetched)
          /\ \A i, k \in 1..Len(hf'.fetched) :
               i < k /\ hf'.fetched[k].level = hf.url[1].depth
                 => hf'.fetched[i].level = hf.url[1].depth
          /\ hf'.last[1].kind = "content"
               /\ HasEntryFor(hf'.last[1].text, hf.url[1].file[1])
               => /\ hf'.outcome = "found"
                  /\ hf'.hash = <<LowercaseHashOf(hf.url[1].file[1])>>]_vars

\* C23: findHashFile never raises: whatever the candidates answer, it ends
\* with a hash or with "not found".
C23_NeverRaises ==
  hf.outcome # "raised"

\* findHashFile of iso-manager.js has tried every candidate, the last one
\* answered with a checksum file on which the extraction threw, and the
\* call returned "not found"
C23_Witness ==
  /\ hf.impl = "manager" /\ hf.outcome = "notFound"
  /\ hf.url # <<>> /\ hf.idx = Len(CandidatesOf(hf)) /\ hf.idx > 0
  /\ hf.last # <<>> /\ hf.last[1].kind = "content"
  /\ extractHashFromFile(hf.last[1].text, hf.url[1].file[1], hf.algo) = Thrown

\* C24: extractHashFromFile returns, for a text with a line
\* "<hash>  <filename>", that hash in lowercase, whatever the letter case of
\* the name in the line; for a text without a line for the filename (and
\* that is not a bare hash) it returns not-found.
C24_ParsesEntry ==
  hf.outcome \in {"extracted", "threw"}
    => LET text == hf.last[1].text
           filename == hf.url[1].file[1]
       IN /\ hf.outcome = "extracted"
          /\ HasEntryFor(text, filename) => hf.hash = <<LowercaseHashOf(filename)>>
          /\ ~HasEntryFor(text, filename) /\ ~onlyAHash(text) => hf.hash = <<>>

\* The value of a version as one number: its parts as the digits, base 100,
\* of a numeral of n places
VersionValue(v, n) ==
  LET F[i \in 0..n] ==
        IF i = 0 THEN 0
        ELSE 100 * F[i - 1] + (IF i <= Len(v) THEN Number(v[i]) ELSE 0)
  IN F[n]

\* The record the entry was matched to, and both versions as strings
MatchedRecord == upd.isos[upd.marks.matchedIsoData]
ListedVersion == versionString(upd.details[1].version[1])
ArchivedVersion == versionString(MatchedRecord.version[1])

\* C25: when the listing entry and the record it is matched to both carry a
\* version, updateAvailable is true exactly when the listing's version is
\* the greater one, whatever the sizes are.
C25_UpdateIffNewer ==
  /\ upd.op = "mark" /\ upd.marks.matchedIsoData # 0
  /\ upd.details[1].version # <<>> /\ MatchedRecord.version # <<>>
  => (upd.marks.updateAvailable
        <=> VersionValue(ListedVersion, MaxParts) > VersionValue(ArchivedVersion, MaxParts))

\* C26: when the catalog has a record with exactly the entry's filename (and
\* the file is in the archive), that record is the one the entry is matched
\* to; a record found by normalized name is used only otherwise.
C26_ExactFilenameFirst ==
  upd.op = "mark"
    => LET exact == findIndexByFilename(upd.isos, upd.details[1].file)
       IN exact # 0 /\ includes(upd.files, upd.details[1].file)
            => upd.marks.matchedIsoData = exact

\* C27: compareVersions(v1, v2) is positive, zero or negative exactly when
\* v1 is greater than, equal to or less than v2 as versions compared part by
\* part as numbers with missing parts 0, and compareVersions(v2, v1) has
\* the opposite sign.
C27_CompareVersions ==
  upd.op = "compareVersions"
    => LET n == max(Len(upd.v1), Len(upd.v2))
           a == VersionValue(upd.v1, n)
           b == VersionValue(upd.v2, n)
       IN /\ upd.result > 0 <=> a > b
          /\ upd.result = 0 <=> a = b
          /\ upd.result < 0 <=> a < b
          /\ compareVersions(upd.v2, upd.v1) = -upd.result

\* compareVersions("2.0", "10.0") was called and gave a negative number
C27_Witness ==
  /\ upd.op = "compareVersions"
  /\ upd.v1 = << <<2>>, <<0>> >> /\ upd.v2 = << <<1, 0>>, <<0>> >>
  /\ upd.result < 0

\* C28: the document an add computes from the catalog holds every record of
\* another filename exactly as the catalog has it.
C28_AddKeepsOthers ==
  [][\A w \in Writers :
       cat[w].pc = "idle" /\ cat'[w].pc = "write" /\ cat'[w].op = "add"
         => OtherRecords(cat'[w].doc, cat'[w].name[1])
              = OtherRecords(writeIsosJson(readIsosJson), cat'[w].name[1])]_vars

\* C29: once an answer has shown the client that the job ended (completed or
\* error), the client issues no further status request for it.
C29_PollingStops ==
  ~poll.late

\* C30: a listing request for a URL is answered with a listing fetched from
\* that URL.
C30_AnswerIsFromRequestedUrl ==
  lc.last.from # <<>> => lc.last.from = lc.last.url
====
